---- MODULE Spec2Model ----
(***************************************************************************)
(* Offline write-durability layer of the realtor CRM service worker        *)
(* (public/sw.js): the fetch listener that classifies requests, the        *)
(* interceptor handleFirestoreRequest, the IndexedDB outbox                *)
(* (getOutbox / setOutbox) and the background-sync drain syncOutbox.       *)
(*                                                                         *)
(* Every `await` of the source is a step boundary: handlers of different   *)
(* fetch events and drain passes of different sync events interleave at    *)
(* these points.  The requests of an IndexedDB transaction run one by one  *)
(* on the transaction's own view of the store, which becomes the committed *)
(* content when the transaction completes.                                 *)
(***************************************************************************)
EXTENDS Integers, Sequences, FiniteSets, TLC

\* ---------------------------------------------------------------- bounds
MaxEvents == 2      \* fetch and sync events dispatched while others may be in flight
MaxClock  == 2      \* distinct values Date.now() can take

\* One more event is followed when the events are handled one at a time.
Writes == 1..(MaxEvents + 1)    \* fetch events
Passes == 1..(MaxEvents + 1)    \* sync events

\* ------------------------------------------------------- requests (inputs)
FirestoreHost == <<"firestore", "googleapis", "com">>
OtherHost     == <<"example", "com">>
HostNeedle    == <<"firestore", "googleapis", "com">>

JsonHeaders == {<<"content-type", "application/json">>}
AuthHeaders == {<<"content-type", "application/json">>, <<"authorization", "Bearer t">>}

\* Bodies are byte strings; 255 is a byte that is not valid UTF-8.
Req(host, path, method, headers, body) ==
    [url |-> [hostname |-> host, pathname |-> path], method |-> method,
     headers |-> headers, body |-> body]

CreateReq == Req(FirestoreHost, "/documents/clients", "POST", AuthHeaders, <<65, 255>>)
UpdateReq == Req(FirestoreHost, "/documents/clients/A", "POST", JsonHeaders, <<66>>)
PatchReq  == Req(FirestoreHost, "/documents/clients/A", "PATCH", JsonHeaders, <<66>>)
DeleteReq == Req(FirestoreHost, "/documents/clients/A", "DELETE", {}, <<>>)
OtherPost == Req(OtherHost, "/api", "POST", JsonHeaders, <<65>>)
RootReq   == Req(OtherHost, "/", "GET", {}, <<>>)

\* Requests of interleaved runs.
Requests == {CreateReq, PatchReq, DeleteReq, OtherPost, RootReq}

NoRequest == Req(<<>>, "", "", {}, <<>>)

\* Statuses a reachable server answers with.
Statuses == {200, 500}

\* ------------------------------------------------------------ pure helpers
\* String.prototype.includes on the hostname, at the granularity of labels.
Includes(hostname, needle) ==
    \E k \in 0..(Len(hostname) - Len(needle)) :
        \A j \in 1..Len(needle) : hostname[k + j] = needle[j]

\* fetch listener, sw.js:19
\* (variant: the host is not looked at)
IsQueueEligibleMutant(request) == request.method = "POST"
IsQueueEligible(request) ==
    Includes(request.url.hostname, HostNeedle) /\ request.method = "POST"

\* Response.ok
\* (variant: 200 itself is not counted as a success)
ResponseOkMutant(status) == status >= 201 /\ status <= 299
ResponseOk(status) == status >= 200 /\ status <= 299

\* Request.text(): UTF-8 decoding of ASCII bytes and of EF BF BD (U+FFFD); any
\* other byte is not valid here and is replaced by U+FFFD.
RECURSIVE Decode(_)
Decode(bytes) ==
    IF bytes = <<>> THEN <<>>
    ELSE IF Head(bytes) < 128 THEN <<Head(bytes)>> \o Decode(Tail(bytes))
    ELSE IF Len(bytes) >= 3 /\ SubSeq(bytes, 1, 3) = <<239, 191, 189>>
         THEN <<65533>> \o Decode(SubSeq(bytes, 4, Len(bytes)))
    ELSE <<65533>> \o Decode(Tail(bytes))

\* fetch(url, {body: string}): UTF-8 encoding of the text.
RECURSIVE Encode(_)
Encode(text) ==
    IF text = <<>> THEN <<>>
    ELSE (IF Head(text) < 128 THEN <<Head(text)>> ELSE <<239, 191, 189>>)
         \o Encode(Tail(text))

\* Object.fromEntries(request.headers.entries()): name -> value object.
FromEntries(headers) ==
    [n \in {p[1] : p \in headers} |-> (CHOOSE p \in headers : p[1] = n)[2]]

\* new Headers(object), done by fetch(url, {headers}).
ToHeaders(obj) == {<<n, obj[n]>> : n \in DOMAIN obj}

\* The request syncOutbox builds from an entry, sw.js:78-82.
ReplayRequest(entry) ==
    [url |-> entry.url, method |-> entry.method,
     headers |-> ToHeaders(entry.headers), body |-> Encode(entry.body)]

\* ---------------------------------------------------------- the outbox store
\* The object store 'outbox' with keyPath 'id': a set of entries, at most one
\* per id.
Put(s, item) == {e \in s : e.id # item.id} \cup {item}

RECURSIVE PutEach(_, _)
PutEach(s, queue) ==
    IF queue = <<>> THEN s ELSE PutEach(Put(s, Head(queue)), Tail(queue))

\* setOutbox's transaction: store.clear(), then store.put of every item.
PutAll(queue) == PutEach({}, queue)

\* store.getAll(): all values in ascending key order.
RECURSIVE GetAll(_)
GetAll(s) ==
    IF s = {} THEN <<>>
    ELSE LET m == CHOOSE e \in s : \A o \in s : e.id <= o.id
         IN  <<m>> \o GetAll(s \ {m})

\* A readwrite transaction of setOutbox (sw.js:120-125) on behalf of `by`:
\* `items` are the values to put, `n` counts the requests executed so far
\* (clear first, then one put per item), `before` is the content the
\* transaction started from, `seen` records that a getOutbox ran while the
\* transaction had executed a part of its requests.
NoTx ==
    [active |-> FALSE, by |-> <<"", 0>>, before |-> {}, items |-> <<>>, n |-> 0,
     seen |-> FALSE]
Begin(by, content, queue) ==
    [active |-> TRUE, by |-> by, before |-> content, items |-> queue, n |-> 0,
     seen |-> FALSE]

\* sw.js:103-106: what store.getAll() of a readonly transaction reads while
\* the readwrite transaction t is running, the committed content.
\* (variant: the read sees the requests t has executed so far)
SnapshotMutant(committed, t) == IF t.active THEN PutAll(SubSeq(t.items, 1, t.n - 1)) ELSE committed
Snapshot(committed, t) == committed

\* The store as the transaction itself sees it.
View(t) ==
    IF t.n = 0 THEN t.before ELSE PutAll(SubSeq(t.items, 1, t.n - 1))

\* sw.js:123-125: tx.oncomplete fires once clear() and every put have been
\* executed.
\* (variant: the promise resolves before the requests have been executed)
AllRequestedMutant(t) == TRUE
AllRequested(t) == t.n = Len(t.items) + 1

\* The view of t is neither the content it started from nor the content it
\* will commit.
Midway(t) == t.active /\ View(t) \notin {t.before, PutAll(t.items)}

\* A readonly transaction ran beside t.
Beside(t) == IF Midway(t) THEN [t EXCEPT !.seen = TRUE] ELSE t

\* ------------------------------------------------------------------ state
VARIABLES
    now,         \* Date.now()
    store,       \* committed content of the object store 'outbox'
    hasSync,     \* self.registration.sync is available
    registered,  \* writes whose handler called sync.register('sync-outbox')
    handler,     \* per fetch event: the state of its respondWith promise
    drain,       \* per sync event: the state of its syncOutbox() run
    enq,         \* history: the writes queued, in the order their setOutbox
                 \* committed, with the intercepted request and the entry
    delivered,   \* history: writes some replay of which received a 2xx
    tx           \* the readwrite transaction on 'outbox' that is running

vars == <<now, store, hasSync, registered, handler, drain, enq, delivered, tx>>

NoResponse == [kind |-> "none", status |-> 0, attempt |-> 0, body |-> ""]
Rejected   == [kind |-> "rejected", status |-> 0, attempt |-> 0, body |-> ""]
NetworkResponse(status, attempt) ==
    [kind |-> "network", status |-> status, attempt |-> attempt, body |-> "server"]
CachedResponse == [kind |-> "cache", status |-> 200, attempt |-> 0, body |-> "cached"]
\* new Response(JSON.stringify({ queued: true }), { status: 202 })
QueuedResponse ==
    [kind |-> "synthetic", status |-> 202, attempt |-> 0, body |-> "{\"queued\":true}"]

NoEntry ==
    [id |-> 0, url |-> NoRequest.url, method |-> "", headers |-> <<>>,
     body |-> <<>>, timestamp |-> 0, w |-> 0]

InitHandler ==
    [pc |-> "idle", request |-> NoRequest, bodyUsed |-> FALSE,
     response |-> NoResponse, queue |-> <<>>, entry |-> NoEntry,
     result |-> NoResponse, sends |-> 0]

InitDrain ==
    [pc |-> "idle", tag |-> "", queue |-> <<>>, i |-> 0, failed |-> <<>>, okd |-> {}]

Init ==
    /\ now = 1
    /\ store = {}
    /\ hasSync \in BOOLEAN
    /\ registered = {}
    /\ handler = [w \in Writes |-> InitHandler]
    /\ drain = [d \in Passes |-> InitDrain]
    /\ enq = <<>>
    /\ delivered = {}
    /\ tx = NoTx

\* -------------------------------------------------------------- the clock
\* Date.now(): a millisecond wall clock, often coarsened by the browser.  It
\* does not run backwards here, and it may return the value it returned last
\* time (two reads within one tick).
DateNow(last) == last..MaxClock

\* Events dispatched so far.
Started ==
    Cardinality({w \in Writes : handler[w].pc # "idle"})
    + Cardinality({d \in Passes : drain[d].pc # "idle"})

\* Positions from which a handler or a drain pass takes no further step:
\* settled, destroyed with the worker, or awaiting a promise nothing settles.
Over == {"done", "terminated", "stalled"}

\* No handler and no drain pass has a step to take.
Quiet ==
    /\ \A w \in Writes : handler[w].pc \in {"idle"} \cup Over
    /\ \A d \in Passes : drain[d].pc \in {"idle"} \cup Over

\* The worker is handed a further event: at most `limit` events in a run, and
\* with `alone` only while nothing is in flight.
Admits(limit, alone) == Started < limit /\ (alone => Quiet)

\* The respondWith promise settles: the page sees `result`; the locals of the
\* handler are dead from here on.
Settled(h, result) ==
    [h EXCEPT !.result = result, !.request = NoRequest, !.bodyUsed = FALSE,
              !.queue = <<>>, !.entry = NoEntry, !.pc = "done"]

\* ----------------------------------------------------- the fetch listener
\* sw.js:34: fetch(request.clone()) reads the body of a clone, so the body of
\* the intercepted request itself is not used up by the first attempt.
\* (variant: fetch(request), the attempt reads the intercepted request itself)
FirstAttemptConsumesOriginalMutant == TRUE
FirstAttemptConsumesOriginal == FALSE

\* sw.js:15-29.  The request is handed to handleFirestoreRequest, whose
\* fetch(request.clone()) starts at once, or to the cache-or-network path.
FetchEvent(w, r, limit, alone) ==
    /\ handler[w].pc = "idle"
    /\ \A v \in Writes : v < w => handler[v].pc # "idle"
    /\ Admits(limit, alone)
    /\ handler' = [handler EXCEPT ![w].request = r,
                                  ![w].bodyUsed = FirstAttemptConsumesOriginal
                                                  /\ IsQueueEligible(r),
                                  ![w].pc = IF IsQueueEligible(r) THEN "fetch" ELSE "cache"]
    /\ UNCHANGED <<now, store, hasSync, registered, drain, enq, delivered, tx>>

\* caches.match(event.request).then(response => response || fetch(event.request))
CachedUrls == {[hostname |-> OtherHost, pathname |-> "/"]}
CacheMatch(request) == request.method = "GET" /\ request.url \in CachedUrls

CacheOrNetwork(w) ==
    /\ handler[w].pc = "cache"
    /\ \/ /\ CacheMatch(handler[w].request)
          /\ handler' = [handler EXCEPT ![w] = Settled(@, CachedResponse)]
       \/ /\ ~CacheMatch(handler[w].request)
          /\ \E s \in Statuses :
                handler' = [handler EXCEPT
                    ![w] = Settled([@ EXCEPT !.sends = @ + 1], NetworkResponse(s, 1))]
       \/ /\ ~CacheMatch(handler[w].request)
          /\ handler' = [handler EXCEPT
                ![w] = Settled([@ EXCEPT !.sends = @ + 1], Rejected)]
    /\ UNCHANGED <<now, store, hasSync, registered, drain, enq, delivered, tx>>

\* ------------------------------------------------- handleFirestoreRequest
\* The catch block runs exactly when fetch rejected (no response at all).
\* (variant: a non-2xx answer is handled like a rejected fetch)
EntersCatchMutant(reachable, status) == ~reachable \/ ~ResponseOk(status)
EntersCatch(reachable, status) == ~reachable

\* sw.js:34-38: the first attempt settles.
FirstAttempt(w) ==
    /\ handler[w].pc = "fetch"
    /\ \E reachable \in BOOLEAN, s \in Statuses :
          LET response == IF reachable THEN NetworkResponse(s, 1) ELSE NoResponse
              h == [handler[w] EXCEPT !.sends = @ + 1, !.response = response]
          IN  IF EntersCatch(reachable, s)
              THEN handler' = [handler EXCEPT ![w] = [h EXCEPT !.pc = "get"]]
              ELSE IF ResponseOk(s)
              THEN handler' = [handler EXCEPT ![w] = Settled(h, response)]
              ELSE handler' = [handler EXCEPT ![w] = [h EXCEPT !.pc = "refetch"]]
    /\ UNCHANGED <<now, store, hasSync, registered, drain, enq, delivered, tx>>

\* sw.js:62: return fetch(request), a second send of the original request.
Refetch(w) ==
    /\ handler[w].pc = "refetch"
    /\ \/ \E s \in Statuses :
             handler' = [handler EXCEPT
                 ![w] = Settled([@ EXCEPT !.sends = @ + 1], NetworkResponse(s, 2))]
       \/ handler' = [handler EXCEPT
                 ![w] = Settled([@ EXCEPT !.sends = @ + 1], Rejected)]
    /\ UNCHANGED <<now, store, hasSync, registered, drain, enq, delivered, tx>>

\* sw.js:40-46: getOutbox resolves; the entry literal is evaluated up to
\* `body: await request.clone().text()`.  clone() throws on a used body.
HandlerGet(w) ==
    /\ handler[w].pc = "get"
    /\ IF handler[w].bodyUsed
       THEN /\ handler' = [handler EXCEPT ![w] = Settled(@, Rejected)]
            /\ UNCHANGED <<now, tx>>
       ELSE \E t \in DateNow(now) :
            /\ now' = t
            /\ tx' = Beside(tx)
            /\ handler' = [handler EXCEPT
                  ![w].queue = GetAll(Snapshot(store, tx)),
                  ![w].entry = [id |-> t,
                                url |-> handler[w].request.url,
                                method |-> handler[w].request.method,
                                headers |-> FromEntries(handler[w].request.headers),
                                body |-> <<>>, timestamp |-> 0, w |-> w],
                  ![w].pc = "capture"]
    /\ UNCHANGED <<store, hasSync, registered, drain, enq, delivered>>

\* sw.js:46-50: the body text arrives, timestamp is taken, the entry is
\* pushed and setOutbox(queue) is started.
HandlerCapture(w) ==
    /\ handler[w].pc = "capture"
    /\ \E t \in DateNow(now) :
          LET e == [handler[w].entry EXCEPT !.body = Decode(handler[w].request.body),
                                            !.timestamp = t]
          IN  /\ now' = t
              /\ handler' = [handler EXCEPT ![w].entry = e,
                                            ![w].queue = Append(@, e),
                                            ![w].pc = "open"]
    /\ UNCHANGED <<store, hasSync, registered, drain, enq, delivered, tx>>

\* sw.js:50, 116-125: open.onsuccess of setOutbox(queue).  The readwrite
\* transaction starts, once no other readwrite transaction on the store is
\* running, with clear() and one put per item requested.
HandlerSet(w) ==
    /\ handler[w].pc = "open"
    /\ ~tx.active
    /\ tx' = Begin(<<"handler", w>>, store, handler[w].queue)
    /\ handler' = [handler EXCEPT ![w].pc = "set"]
    /\ UNCHANGED <<now, store, hasSync, registered, drain, enq, delivered>>

\* sw.js:50, 125: tx.oncomplete.  The view of the transaction is committed and
\* the promise of setOutbox resolves.
HandlerSetComplete(w) ==
    /\ handler[w].pc = "set"
    /\ tx.active /\ tx.by = <<"handler", w>> /\ AllRequested(tx)
    /\ store' = View(tx)
    /\ tx' = NoTx
    /\ enq' = Append(enq, [w |-> w, request |-> handler[w].request,
                            entry |-> handler[w].entry])
    /\ handler' = [handler EXCEPT ![w].pc = "register"]
    /\ UNCHANGED <<now, hasSync, registered, drain, delivered>>

\* sw.js:53: if (self.registration.sync), the registration is attempted only
\* when the platform offers background sync.
\* (variant: register is called without the check)
AttemptsRegisterMutant(available) == TRUE
AttemptsRegister(available) == available

\* sw.js:52-58: best-effort sync registration and the synthetic response.
\* Calling register on a missing sync manager throws, and nothing catches it.
HandlerReturn(w) ==
    /\ handler[w].pc = "register"
    /\ IF ~AttemptsRegister(hasSync)
       THEN /\ registered' = registered
            /\ handler' = [handler EXCEPT ![w] = Settled(@, QueuedResponse)]
       ELSE IF hasSync
       THEN /\ registered' = registered \cup {w}
            /\ handler' = [handler EXCEPT ![w] = Settled(@, QueuedResponse)]
       ELSE /\ registered' = registered
            /\ handler' = [handler EXCEPT ![w] = Settled(@, Rejected)]
    /\ UNCHANGED <<now, store, hasSync, drain, enq, delivered, tx>>

\* ------------------------------------------------------------- syncOutbox
SyncTag == "sync-outbox"

\* sw.js:54: the tag handleFirestoreRequest registers.
RegisterTag == "sync-outbox"

\* sw.js:67: if (event.tag === 'sync-outbox')
\* (variant: every sync event starts a pass)
StartsDrainMutant(tag) == TRUE
StartsDrain(tag) == tag = SyncTag

\* sw.js:66-70: the sync listener.
SyncEvent(d, tag, limit, alone) ==
    /\ drain[d].pc = "idle"
    /\ \A c \in Passes : c < d => drain[c].pc # "idle"
    /\ Admits(limit, alone)
    /\ drain' = [drain EXCEPT ![d].tag = tag,
                              ![d].pc = IF StartsDrain(tag) THEN "get" ELSE "done"]
    /\ UNCHANGED <<now, store, hasSync, registered, handler, enq, delivered, tx>>

\* sw.js:73-74
DrainGet(d) ==
    /\ drain[d].pc = "get"
    /\ drain' = [drain EXCEPT ![d].queue = GetAll(Snapshot(store, tx)),
                              ![d].failed = <<>>,
                              ![d].i = 1,
                              ![d].pc = "loop"]
    /\ tx' = Beside(tx)
    /\ UNCHANGED <<now, store, hasSync, registered, handler, enq, delivered>>

\* for (const entry of queue)
\* (variant: the loop runs one index past the end)
HasNextMutant(queue, i) == i <= Len(queue) + 1
HasNext(queue, i) == i <= Len(queue)
EntryAt(queue, i) == IF i \in DOMAIN queue THEN queue[i] ELSE NoEntry

\* sw.js:84-90: what the loop body keeps.
\* (variant: only a rejected fetch keeps the entry, `!response.ok` is missing)
RetainsMutant(reachable, status) == ~reachable
\* (variant: only an answered replay keeps the entry, the catch pushes nothing)
RetainsAnsweredMutant(reachable, status) == reachable /\ ~ResponseOk(status)
Retains(reachable, status) == ~reachable \/ ~ResponseOk(status)

\* sw.js:85, 89: failed.push(entry), the entry object as it was read.
\* (variant: the entry is stamped again when it is kept)
KeptMutant(entry) == [entry EXCEPT !.timestamp = 0]
Kept(entry) == entry

\* for...of with the try inside the loop body: the iteration after entry i is
\* entry i + 1, whether or not entry i was kept.
\* (variant: the pass stops at the first entry it keeps)
AfterMutant(queue, i, kept) == IF kept THEN Len(queue) + 1 ELSE i + 1
After(queue, i, kept) == i + 1

\* sw.js:76-91: one iteration, the replay of queue[i] settles.
DrainReplay(d) ==
    /\ drain[d].pc = "loop"
    /\ HasNext(drain[d].queue, drain[d].i)
    /\ LET entry == EntryAt(drain[d].queue, drain[d].i)
       IN  \E reachable \in BOOLEAN, s \in Statuses :
              /\ drain' = [drain EXCEPT
                    ![d].failed = IF Retains(reachable, s)
                                  THEN Append(@, Kept(entry)) ELSE @,
                    ![d].okd = IF reachable /\ ResponseOk(s)
                               THEN @ \cup {drain[d].i} ELSE @,
                    ![d].i = After(drain[d].queue, @, Retains(reachable, s))]
              /\ delivered' = IF reachable /\ ResponseOk(s)
                              THEN delivered \cup {entry.w} ELSE delivered
    /\ UNCHANGED <<now, store, hasSync, registered, handler, enq, tx>>

\* sw.js:93, 116-125: the loop is over and open.onsuccess of setOutbox(failed)
\* starts the readwrite transaction.
DrainSet(d) ==
    /\ drain[d].pc = "loop"
    /\ ~HasNext(drain[d].queue, drain[d].i)
    /\ ~tx.active
    /\ tx' = Begin(<<"drain", d>>, store, drain[d].failed)
    /\ drain' = [drain EXCEPT ![d].pc = "set"]
    /\ UNCHANGED <<now, store, hasSync, registered, handler, enq, delivered>>

\* sw.js:93, 125: tx.oncomplete, the pass is over.
DrainSetComplete(d) ==
    /\ drain[d].pc = "set"
    /\ tx.active /\ tx.by = <<"drain", d>> /\ AllRequested(tx)
    /\ store' = View(tx)
    /\ tx' = NoTx
    /\ drain' = [drain EXCEPT ![d].queue = <<>>, ![d].failed = <<>>,
                              ![d].i = 0, ![d].okd = {}, ![d].pc = "done"]
    /\ UNCHANGED <<now, hasSync, registered, handler, enq, delivered>>

\* sw.js:123-124: the next request of the running transaction, store.clear()
\* or a store.put(item), is executed.
TxRequest ==
    /\ tx.active
    /\ ~AllRequested(tx)
    /\ tx' = [tx EXCEPT !.n = @ + 1]
    /\ UNCHANGED <<now, store, hasSync, registered, handler, drain, enq, delivered>>

\* ----------------------------------------------------------------- faults
\* What is on disk once the transaction t is aborted: its requests are rolled
\* back.
\* (variant: the requests executed before the abort stay)
PersistedMutant(committed, t) == IF t.active /\ t.n > 0 THEN PutAll(SubSeq(t.items, 1, t.n - 1)) ELSE committed
Persisted(committed, t) == committed

\* The browser terminates the worker: every handler and drain pass in flight is
\* destroyed with its locals, the running transaction is aborted.  The worker
\* is started again for the next event.
Terminate ==
    /\ ~Quiet
    /\ handler' = [w \in Writes |->
                      IF handler[w].pc \in {"idle"} \cup Over THEN handler[w]
                      ELSE [InitHandler EXCEPT !.pc = "terminated"]]
    /\ drain' = [d \in Passes |->
                    IF drain[d].pc \in {"idle"} \cup Over THEN drain[d]
                    ELSE [InitDrain EXCEPT !.pc = "terminated", !.tag = drain[d].tag]]
    /\ store' = Persisted(store, tx)
    /\ tx' = NoTx
    /\ UNCHANGED <<now, hasSync, registered, enq, delivered>>

\* sw.js:97-114, 116-134: indexedDB.open fails, or the transaction is aborted
\* on an error.  No onerror or onabort handler is set and the promise has no
\* reject path, so the promise the handler awaits never settles.
HandlerStorageError(w) ==
    /\ handler[w].pc \in {"get", "open", "set"}
    /\ handler' = [handler EXCEPT ![w] = [InitHandler EXCEPT !.pc = "stalled"]]
    /\ IF tx.active /\ tx.by = <<"handler", w>>
       THEN store' = Persisted(store, tx) /\ tx' = NoTx
       ELSE UNCHANGED <<store, tx>>
    /\ UNCHANGED <<now, hasSync, registered, drain, enq, delivered>>

\* sw.js:54: the platform refuses the registration (background sync is not
\* permitted for the site) and the awaited register rejects, uncaught.
HandlerRegisterRefused(w) ==
    /\ handler[w].pc = "register"
    /\ AttemptsRegister(hasSync) /\ hasSync
    /\ registered' = registered \cup {w}
    /\ handler' = [handler EXCEPT ![w] = Settled(@, Rejected)]
    /\ UNCHANGED <<now, store, hasSync, drain, enq, delivered, tx>>

DrainStorageError(d) ==
    /\ \/ drain[d].pc \in {"get", "set"}
       \/ drain[d].pc = "loop" /\ ~HasNext(drain[d].queue, drain[d].i)
    /\ drain' = [drain EXCEPT ![d] = [InitDrain EXCEPT !.pc = "stalled", !.tag = drain[d].tag]]
    /\ IF tx.active /\ tx.by = <<"drain", d>>
       THEN store' = Persisted(store, tx) /\ tx' = NoTx
       ELSE UNCHANGED <<store, tx>>
    /\ UNCHANGED <<now, hasSync, registered, handler, enq, delivered>>

\* ---------------------------------------------------------- specifications
\* The platform fires the tag that was registered, and tags of other features.
Tags == {RegisterTag, "other-tag"}

\* The steps of handleFirestoreRequest, of syncOutbox and of the outbox.
QueueStep ==
    \/ \E w \in Writes : FirstAttempt(w)
    \/ \E w \in Writes : Refetch(w)
    \/ \E w \in Writes : HandlerGet(w)
    \/ \E w \in Writes : HandlerCapture(w)
    \/ \E w \in Writes : HandlerSet(w)
    \/ \E w \in Writes : HandlerSetComplete(w)
    \/ \E w \in Writes : HandlerReturn(w)
    \/ \E d \in Passes : DrainGet(d)
    \/ \E d \in Passes : DrainReplay(d)
    \/ \E d \in Passes : DrainSet(d)
    \/ \E d \in Passes : DrainSetComplete(d)
    \/ TxRequest

Step ==
    \/ \E w \in Writes : CacheOrNetwork(w)
    \/ QueueStep

\* Any interleaving: an event may be dispatched while handlers and drain
\* passes of earlier events are suspended at an await.
Next ==
    \/ \E w \in Writes, r \in Requests : FetchEvent(w, r, MaxEvents, FALSE)
    \/ \E d \in Passes, t \in Tags : SyncEvent(d, t, MaxEvents, FALSE)
    \/ Step

Spec == Init /\ [][Next]_vars

\* The requests that go to handleFirestoreRequest, and those of runs that
\* handle one event at a time.
QueueRequests == {r \in Requests : IsQueueEligible(r)}
SeqRequests == QueueRequests \cup {UpdateReq}

\* One operation at a time: a backend write or a sync event is dispatched only
\* when no handler and no drain pass is in flight.  These runs are one event
\* longer and know one more kind of write.
NextSeq ==
    \/ \E w \in Writes, r \in SeqRequests : FetchEvent(w, r, MaxEvents + 1, TRUE)
    \/ \E d \in Passes, t \in Tags : SyncEvent(d, t, MaxEvents + 1, TRUE)
    \/ QueueStep

SpecSeq == Init /\ [][NextSeq]_vars

\* No handler has a step to take.
HandlersQuiet == \A w \in Writes : handler[w].pc \in {"idle"} \cup Over

\* The sync trigger fires again while drain passes are in flight.
SyncEventBesideDrains(d, tag) ==
    /\ HandlersQuiet
    /\ SyncEvent(d, tag, MaxEvents + 1, FALSE)

\* Overlapping drain passes with no enqueue in between: a backend write is
\* dispatched only when nothing is in flight, a sync event when no handler is.
NextDrains ==
    \/ \E w \in Writes, r \in QueueRequests : FetchEvent(w, r, MaxEvents + 1, TRUE)
    \/ \E d \in Passes, t \in Tags : SyncEventBesideDrains(d, t)
    \/ QueueStep

SpecDrains == Init /\ [][NextDrains]_vars

\* The same, and the worker may be terminated at any point.
NextCrash ==
    \/ NextDrains
    \/ Terminate

SpecCrash == Init /\ [][NextCrash]_vars

\* Backend writes and sync events one at a time, with worker termination,
\* storage errors and refused sync registrations.
NextFault ==
    \/ \E w \in Writes, r \in QueueRequests : FetchEvent(w, r, MaxEvents, TRUE)
    \/ \E d \in Passes, t \in Tags : SyncEvent(d, t, MaxEvents, TRUE)
    \/ QueueStep
    \/ Terminate
    \/ \E w \in Writes : HandlerStorageError(w)
    \/ \E d \in Passes : DrainStorageError(d)
    \/ \E w \in Writes : HandlerRegisterRefused(w)

SpecFault == Init /\ [][NextFault]_vars

\* Background sync of the platform.  The event for the registered tag is fired
\* once per registration; it would be fired again for a pass whose promise
\* rejected, which syncOutbox's never does (sw.js:72-94 catches every replay
\* error and getOutbox and setOutbox cannot reject).  Registrations made while
\* one is pending are merged by the platform; counting each of them allows
\* more firings, never fewer.
Fired ==
    Cardinality({d \in Passes : drain[d].pc # "idle" /\ drain[d].tag = RegisterTag})
Pending == Cardinality(registered) > Fired

\* The platform fires the sync event of a pending registration.
SyncFire(d) ==
    /\ Pending
    /\ SyncEvent(d, RegisterTag, 2 * (MaxEvents + 1), TRUE)

\* Backend writes one at a time, and sync events fired by the platform only.
NextLive ==
    \/ \E w \in Writes, r \in QueueRequests : FetchEvent(w, r, MaxEvents + 1, TRUE)
    \/ \E d \in Passes : SyncFire(d)
    \/ QueueStep

\* Every continuation of a handler or a pass runs, every fetch and every
\* transaction settles, and the platform does fire a pending sync event; the
\* page is free never to issue another write.
SpecLive ==
    /\ Init /\ [][NextLive]_vars
    /\ WF_vars(QueueStep)
    /\ WF_vars(\E d \in Passes : SyncFire(d))

\* ================================================================== claims
WritesOf(seq) == [k \in DOMAIN seq |-> seq[k].w]
Queued == {enq[k].w : k \in DOMAIN enq}
QueuedAs(w) == CHOOSE q \in {enq[k] : k \in DOMAIN enq} : q.w = w
InQueuePath(w) ==
    handler[w].pc \in {"fetch", "refetch", "get", "capture", "open", "set", "register"}
DrainInFlight == \E d \in Passes : drain[d].pc \in {"get", "loop", "set"}
NonSuccess(response) == response.kind = "network" /\ ~ResponseOk(response.status)

\* C1: at-least-once delivery.  A queued entry that no replay has delivered
\* (2xx) is in the store, and once no drain pass is in flight a delivered
\* entry is no longer in the store.
C1_AtLeastOnce ==
    \A k \in DOMAIN enq :
        /\ enq[k].w \notin delivered => enq[k].entry \in store
        /\ (enq[k].w \in delivered /\ ~DrainInFlight) => enq[k].entry \notin store

\* C2: FIFO replay.  As long as nothing has been delivered, the sequence a
\* drain pass has read, which it replays front to back, is the sequence of the
\* queued writes in the order they were queued.
C2_FifoReplay ==
    \A d \in Passes :
        (drain[d].pc = "loop" /\ delivered = {})
            => WritesOf(drain[d].queue) = WritesOf(enq)

\* C3: enqueue on connectivity failure.  The commit of the handler adds exactly
\* the new entry, which carries the request's method, url, headers and body
\* text, and keeps every entry that was in the store; the caller then gets the
\* 202 {queued:true} response.
C3_EnqueueOnFailure ==
    [][\A w \in Writes :
        /\ (handler[w].pc = "set" /\ handler'[w].pc = "register") =>
              LET e == handler[w].entry
                  r == handler[w].request
              IN  /\ e \notin store
                  /\ store' = store \cup {e}
                  /\ e.url = r.url /\ e.method = r.method
                  /\ ToHeaders(e.headers) = r.headers
                  /\ e.body = Decode(r.body)
        /\ (handler[w].pc = "register" /\ handler'[w].pc = "done") =>
              handler'[w].result = QueuedResponse]_vars

\* C4: a write whose first network attempt was answered with a non-2xx status
\* is never on the queueing path, never queued and never registers a sync.
C4_RejectedNeverQueued ==
    \A w \in Writes :
        NonSuccess(handler[w].response) =>
            /\ handler[w].pc \in {"refetch", "done"}
            /\ w \notin Queued
            /\ w \notin registered
            /\ \A e \in store : e.w # w

C4_Witness ==
    \E w \in Writes :
        /\ handler[w].pc = "done"
        /\ NonSuccess(handler[w].response)
        /\ store # {}

\* C5: when the first attempt is answered with a non-2xx status, the response
\* returned to the caller is that very response.
C5_PassThrough ==
    \A w \in Writes :
        (handler[w].pc = "done" /\ NonSuccess(handler[w].response))
            => handler[w].result = handler[w].response

\* C6: handleFirestoreRequest always resolves, with a network response or with
\* the synthetic 202; it never rejects.
C6_NeverRejects ==
    [][\A w \in Writes :
        (InQueuePath(w) /\ handler'[w].pc = "done")
            => handler'[w].result.kind \in {"network", "synthetic"}]_vars

\* C7: with nothing else in flight, the store after a drain pass is exactly the
\* entries the pass read whose replay did not return a 2xx, in their order.
Unacknowledged(queue, okd) ==
    LET keep == {k \in DOMAIN queue : k \notin okd}
        F[n \in 0..Len(queue)] ==
            IF n = 0 THEN <<>>
            ELSE IF n \in keep THEN Append(F[n - 1], queue[n]) ELSE F[n - 1]
    IN  F[Len(queue)]

C7_DrainResult ==
    [][\A d \in Passes :
        (drain[d].pc = "set" /\ drain'[d].pc = "done")
            => GetAll(store') = Unacknowledged(drain[d].queue, drain[d].okd)]_vars

\* Scenario C: two entries, the first delivered, the second not.
C7_Witness ==
    /\ Len(enq) = 2
    /\ drain[1].pc = "done" /\ drain[1].tag = SyncTag
    /\ delivered = {enq[1].w}
    /\ store = {enq[2].entry}
    /\ enq[1].entry # enq[2].entry

\* C8: a drain pass on an empty outbox sends nothing and leaves the store
\* empty, every time.
C8_DrainOnEmpty ==
    [][\A d \in Passes :
        (store = {} /\ drain[d].pc \in {"get", "loop", "set"}) =>
            /\ store' = {}
            /\ delivered' = delivered
            /\ drain'[d].pc = "loop" => (drain'[d].queue = <<>> /\ drain'[d].i = 1)]_vars

C8_Witness ==
    /\ drain[1].pc = "done" /\ drain[1].tag = SyncTag
    /\ drain[2].pc = "done" /\ drain[2].tag = SyncTag
    /\ enq = <<>>
    /\ store = {}

\* C9: the request a drain pass issues for an entry has the url, method,
\* headers and body text of the intercepted request, and the body of the
\* intercepted request is unread when the catch block captures it.
C9_ReplayFidelity ==
    /\ \A d \in Passes :
          drain[d].pc = "loop" =>
              \A k \in 1..(drain[d].i - 1) :
                  LET sent == ReplayRequest(drain[d].queue[k])
                      orig == QueuedAs(drain[d].queue[k].w).request
                  IN  /\ sent.url = orig.url
                      /\ sent.method = orig.method
                      /\ sent.headers = orig.headers
                      /\ Decode(sent.body) = Decode(orig.body)
    /\ \A w \in Writes : handler[w].pc \in {"get", "capture"} => ~handler[w].bodyUsed

\* A replay has been issued for a write whose body is not valid UTF-8.
C9_Witness ==
    \E d \in Passes :
        /\ drain[d].pc = "loop"
        /\ drain[d].i = 2
        /\ QueuedAs(drain[d].queue[1].w).request = CreateReq
        /\ ReplayRequest(drain[d].queue[1]).body # CreateReq.body

\* C10: a request is on the queueing path if and only if it goes to the
\* backend with a mutating method (create, update or delete).
MutatingMethods == {"POST", "PUT", "PATCH", "DELETE"}
IsBackendWrite(request) ==
    Includes(request.url.hostname, HostNeedle) /\ request.method \in MutatingMethods

C10_Classification ==
    \A w \in Writes :
        /\ handler[w].pc = "cache" => ~IsBackendWrite(handler[w].request)
        /\ handler[w].pc = "fetch" => IsBackendWrite(handler[w].request)

\* C11: ids are unique and increasing.  The ids of the queued entries grow
\* strictly in the order the entries were queued, also for two writes that
\* fail within one clock tick.
C11_UniqueIds ==
    \A j, k \in DOMAIN enq : j < k => enq[j].entry.id < enq[k].entry.id

\* C12: atomic replace.  While a setOutbox transaction runs, the getOutbox of
\* a drain pass reads either the complete content from before it or the
\* complete content it puts, and when the transaction ends, by completion or by
\* the termination of the worker, the store holds one of the two.
Outcomes(t) == {t.before, PutAll(t.items)}

C12_AtomicReplace ==
    [][/\ \A d \in Passes :
            (tx.active /\ drain[d].pc = "get" /\ drain'[d].pc = "loop")
                => \E c \in Outcomes(tx) : drain'[d].queue = GetAll(c)
       /\ (tx.active /\ ~tx'.active) => store' \in Outcomes(tx)]_vars

\* A getOutbox has run while the transaction had cleared the store and not yet
\* put everything back.
C12_Witness ==
    /\ tx.active /\ tx.seen
    /\ tx.before # {}
    /\ tx.items # <<>>

\* C13: a storage failure reaches the caller.  No handler and no drain pass is
\* left waiting forever for an outbox operation that failed.
C13_FailsLoudly ==
    /\ \A w \in Writes : handler[w].pc # "stalled"
    /\ \A d \in Passes : drain[d].pc # "stalled"

\* C14: overlapping drain passes, no enqueue in between.  The commit of a pass
\* removes from the store only entries a replay of which, in this or another
\* pass, received a 2xx, and the store never holds two entries under one id.
Range(seq) == {seq[k] : k \in DOMAIN seq}

C14_OverlappingDrains ==
    [][/\ \A d \in Passes :
            (drain[d].pc = "set" /\ drain'[d].pc = "done")
                => \A e \in store \ store' : e.w \in delivered
       /\ \A a, b \in store' : a.id = b.id => a = b]_vars

\* Two passes have overlapped: both are over, and the entry one of them
\* delivered was written back by the other, which could not deliver it.
C14_Witness ==
    /\ Len(enq) = 1
    /\ drain[1].pc = "done" /\ drain[1].tag = SyncTag
    /\ drain[2].pc = "done" /\ drain[2].tag = SyncTag
    /\ delivered = {enq[1].w}
    /\ store = {enq[1].entry}

\* C15: a drain pass deletes only what it delivered.  The commit of a pass
\* leaves in the store every entry the pass did not read, such as an entry
\* queued while the pass was in flight.
C15_EnqueueDuringDrain ==
    [][\A d \in Passes :
        (drain[d].pc = "set" /\ drain'[d].pc = "done")
            => \A e \in store : e \notin Range(drain[d].queue) => e \in store']_vars

\* C16: crash safety of a drain pass that runs alone.  When the worker is
\* terminated during the pass, the store afterwards is the content the pass
\* read or the retained entries it was writing, and no entry without a 2xx is
\* missing from it.
C16_CrashSafety ==
    [][\A d \in Passes :
        (drain[d].pc \in {"get", "loop", "set"} /\ drain'[d].pc = "terminated") =>
            /\ drain[d].pc = "get" => store' = store
            /\ drain[d].pc \in {"loop", "set"} =>
                  \/ store' = Range(drain[d].queue)
                  \/ drain[d].pc = "set" /\ store' = PutAll(drain[d].failed)
            /\ \A e \in store : e.w \notin delivered => e \in store']_vars

\* The worker was terminated in a pass that had delivered the entry: the entry
\* is still in the store.
C16_Witness ==
    /\ Len(enq) = 1
    /\ drain[1].pc = "terminated" /\ drain[2].pc = "idle"
    /\ delivered = {enq[1].w}
    /\ store = {enq[1].entry}

\* C17: the success path has no side effect.  When the first attempt of a
\* queue-eligible write is answered with a 2xx, the handler returns that
\* response after this one send, and the store, the running transaction, the
\* queue history and the sync registrations stay as they are.
Is2xx(response) ==
    response.kind = "network" /\ response.status \in 200..299

C17_SuccessNoSideEffect ==
    [][\A w \in Writes :
        (handler[w].pc = "fetch" /\ Is2xx(handler'[w].response)) =>
            /\ handler'[w].pc = "done"
            /\ handler'[w].result = handler'[w].response
            /\ handler'[w].sends = 1
            /\ store' = store /\ tx' = tx /\ enq' = enq
            /\ registered' = registered]_vars

C17_Witness ==
    \E w \in Writes :
        /\ handler[w].pc = "done"
        /\ Is2xx(handler[w].result) /\ handler[w].result.attempt = 1
        /\ handler[w].sends = 1
        /\ store # {}

\* C18: best-effort sync registration.  The handler of a queued write asks for
\* the sync registration whenever the platform offers background sync; when it
\* does not, the handler registers nothing and still resolves with the 202
\* response, the entry having been stored.
C18_BestEffortRegistration ==
    [][\A w \in Writes :
        (handler[w].pc = "register" /\ handler'[w].pc = "done") =>
            /\ w \in Queued
            /\ store' = store
            /\ hasSync => w \in registered'
            /\ ~hasSync => /\ registered' = registered
                           /\ handler'[w].result = QueuedResponse]_vars

C18_Witness ==
    /\ ~hasSync
    /\ registered = {}
    /\ \E w \in Writes :
          /\ handler[w].pc = "done"
          /\ handler[w].result = QueuedResponse
          /\ w \in Queued

\* C19: a drain pass attempts every entry.  The pass replays the entries it
\* read one per iteration, entry i in iteration i, each one either kept or
\* delivered, and it writes back only after the last entry was replayed,
\* whatever happened to the entries before it.
C19_AttemptsEveryEntry ==
    [][\A d \in Passes :
        /\ (drain[d].pc = "loop" /\ drain'[d] # drain[d] /\ drain'[d].pc = "loop") =>
              /\ drain[d].i \in DOMAIN drain[d].queue
              /\ drain'[d].i = drain[d].i + 1
              /\ drain'[d].queue = drain[d].queue
              /\ Len(drain'[d].failed) + Cardinality(drain'[d].okd) = drain[d].i
              /\ \/ /\ drain'[d].failed = Append(drain[d].failed, drain[d].queue[drain[d].i])
                    /\ drain'[d].okd = drain[d].okd
                 \/ /\ drain'[d].failed = drain[d].failed
                    /\ drain'[d].okd = drain[d].okd \cup {drain[d].i}
        /\ (drain[d].pc = "loop" /\ drain'[d].pc = "set") =>
              /\ drain[d].i = Len(drain[d].queue) + 1
              /\ Len(drain[d].failed) + Cardinality(drain[d].okd) = Len(drain[d].queue)]_vars

\* The first of two entries failed and the second was delivered all the same.
C19_Witness ==
    \E d \in Passes :
        /\ drain[d].pc = "set"
        /\ Len(drain[d].queue) = 2
        /\ drain[d].okd = {2}
        /\ drain[d].failed = <<drain[d].queue[1]>>

\* C20: entry immutability.  Every entry in the store is, field for field, the
\* entry its handler created and queued.
C20_EntryImmutable ==
    \A e \in store :
        /\ e.w \in Queued
        /\ LET o == QueuedAs(e.w).entry
           IN  /\ e.id = o.id /\ e.url = o.url /\ e.method = o.method
               /\ e.headers = o.headers /\ e.body = o.body
               /\ e.timestamp = o.timestamp

\* An entry has been written back by a drain pass that could not deliver it.
C20_Witness ==
    /\ Len(enq) = 1
    /\ delivered = {}
    /\ store = {enq[1].entry}
    /\ \E d \in Passes : drain[d].pc = "done" /\ drain[d].tag = SyncTag

\* C21: append order equals attempt order.  Of two entries in the store, the
\* one whose write was intercepted first comes first in the order getOutbox
\* returns, the order of the ids.
C21_AppendOrder ==
    \A a, b \in store : a.w < b.w => a.id < b.id

\* C22: two concurrent offline writes are both queued.  As long as no drain
\* pass has started, every queued write whose entry has an id of its own is
\* in the store.
C22_BothQueued ==
    (\A d \in Passes : drain[d].pc = "idle") =>
        \A k \in DOMAIN enq :
            (\A j \in DOMAIN enq : j # k => enq[j].entry.id # enq[k].entry.id)
                => enq[k].entry \in store

\* C23: only the named tag drains.  A sync event with the tag the interceptor
\* registers starts a pass; a sync event with another tag is over at once, has
\* read and sent nothing and leaves the store as it is; only passes for the
\* registered tag are ever in flight.
C23_OnlyNamedTag ==
    [][\A d \in Passes :
        /\ (drain[d].pc = "idle" /\ drain'[d].pc # "idle") =>
              IF drain'[d].tag = RegisterTag
              THEN drain'[d].pc = "get"
              ELSE /\ drain'[d].pc = "done"
                   /\ drain'[d].queue = <<>> /\ drain'[d].okd = {}
                   /\ store' = store /\ tx' = tx /\ delivered' = delivered
        /\ (drain[d].pc # "idle" /\ drain[d].tag # RegisterTag) => drain'[d] = drain[d]
        /\ drain[d].pc \in {"get", "loop", "set"} => drain[d].tag = RegisterTag]_vars

\* A sync event with another tag was handled while entries were queued.
C23_Witness ==
    /\ store # {}
    /\ \E d \in Passes : drain[d].pc = "done" /\ drain[d].tag = "other-tag"

\* C24: non-eligible requests never touch the outbox.  A request that is not a
\* POST to the Firestore host goes to the cache-or-network path, whose outcome,
\* success or failure, leaves the store, the transaction, the queue history and
\* the sync registrations as they are; the store changes only when setOutbox of
\* a handler or of a drain pass completes.
IsFirestorePost(request) ==
    request.method = "POST" /\ request.url.hostname = FirestoreHost

C25_EventualDelivery ==
    (hasSync /\ store # {} /\ Quiet) ~> (store = {} \/ DrainInFlight)

\* C26: no replay after delivery.  Once a replay of an entry has received a
\* 2xx response, no drain pass sends that entry to the network again, also when
\* passes overlap: every iteration of the replay loop is for an entry whose
\* write has not been delivered.
C26_NoReplayAfterDelivery ==
    [][\A d \in Passes :
        (drain[d].pc = "loop" /\ HasNext(drain[d].queue, drain[d].i)
            /\ drain'[d].i # drain[d].i)
            => EntryAt(drain[d].queue, drain[d].i).w \notin delivered]_vars

\* C27: one network send per intercepted write.  handleFirestoreRequest sends
\* the request of a queue-eligible write to the network at most once, whatever
\* the outcome of the attempt.
C27_OneSendPerWrite ==
    [][\A w \in Writes : InQueuePath(w) => handler'[w].sends <= 1]_vars

\* C28: durable before acknowledged.  When the handler returns the synthetic
\* 202, the transaction that stored its entry has committed and the entry is
\* in the store; from then on the entry stays in the store over every step,
\* worker termination included, that is not the commit of another handler's or
\* of a drain pass's transaction.
C28_DurableBeforeAck ==
    [][\A w \in Writes :
        /\ (handler[w].pc = "register" /\ handler'[w].pc = "done"
                /\ handler'[w].result = QueuedResponse)
              => /\ w \in Queued
                 /\ QueuedAs(w).entry \in store'
                 /\ ~(tx'.active /\ tx'.by = <<"handler", w>>)
        /\ (handler[w].pc = "done" /\ handler[w].result = QueuedResponse
                /\ w \in Queued /\ QueuedAs(w).entry \in store)
              => \/ QueuedAs(w).entry \in store'
                 \/ \E v \in Writes :
                        handler[v].pc = "set" /\ handler'[v].pc = "register"
                 \/ \E d \in Passes :
                        drain[d].pc = "set" /\ drain'[d].pc = "done"]_vars

\* The caller of write 1 has received the 202 and the worker was terminated
\* afterwards, with the next write in flight: the entry is in the store.
C28_Witness ==
    /\ handler[1].pc = "done" /\ handler[1].result = QueuedResponse
    /\ handler[2].pc = "terminated"
    /\ 1 \in Queued /\ store = {QueuedAs(1).entry}

====
